---------------------------- MODULE Spec2Model ----------------------------
(***************************************************************************)
(* A model of src/astroscan.py: the aspect-date finder (find_aspect_dates), *)
(* the event-window analyzer (analyze_symbol_for_aspect_dates), the price  *)
(* loader (load_github_df) and the "Run Stock Scan" handler with its       *)
(* aggregation and minimum-occurrence filter.                              *)
(*                                                                         *)
(* Conventions.  A date string "DD-MM-YYYY" is the tuple <<d, m, y>> of    *)
(* its three fields; formatting builds it from a calendar date and         *)
(* strptime validates the fields and converts them back to a day ordinal   *)
(* with the Gregorian calendar.  A Julian day number is modelled by the    *)
(* day ordinal of its calendar day: the time of day that julday() adds is  *)
(* the same for every offset of one call and never changes the day.        *)
(* A price is an integer; a percentage is the exact rational               *)
(* [num, den] with den > 0, compared by cross-multiplication.              *)
(***************************************************************************)
EXTENDS Integers, Sequences, FiniteSets, TLC

(***************************************************************************)
(* Bounds of the model.                                                    *)
(***************************************************************************)
\* The length of a "year" of the day loop: the code's 365, scaled down so
\* that the loop of a call is a handful of days.
YearLen == 3
\* The largest result cap (limit_past, limit_future) a call is given.
MaxLimit == 2

(***************************************************************************)
(* Generic helpers.                                                        *)
(***************************************************************************)
Range(s) == {s[i] : i \in 1..Len(s)}

Min2(a, b) == IF a <= b THEN a ELSE b

Max2(a, b) == IF a >= b THEN a ELSE b

Reverse(s) == [i \in 1..Len(s) |-> s[Len(s) + 1 - i]]

\* Python's s[start:] for any integer start.
PySliceFrom(s, start) ==
    LET n == Len(s)
        lo == IF start < 0 THEN Max2(n + start, 0) ELSE Min2(start, n)
    IN  SubSeq(s, lo + 1, n)

\* Python's s[:stop] for any integer stop.
PySliceTo(s, stop) ==
    LET n == Len(s)
        hi == IF stop < 0 THEN Max2(n + stop, 0) ELSE Min2(stop, n)
    IN  SubSeq(s, 1, hi)

(***************************************************************************)
(* The Gregorian calendar, as datetime and swe.julday / swe.revjul use it. *)
(***************************************************************************)
IsLeap(y) == (y % 4 = 0 /\ y % 100 # 0) \/ y % 400 = 0

DaysInYear(y) == IF IsLeap(y) THEN 366 ELSE 365

DaysInMonth(y, m) ==
    IF m \in {4, 6, 9, 11} THEN 30
    ELSE IF m = 2 THEN (IF IsLeap(y) THEN 29 ELSE 28)
    ELSE 31

\* The number of days before 1 January of year y (day ordinal 1 is
\* 01-01-0001, as in datetime).
DaysBeforeYear(y) ==
    (y - 1) * 365 + ((y - 1) \div 4) - ((y - 1) \div 100) + ((y - 1) \div 400)

RECURSIVE DaysBeforeMonth(_, _)
DaysBeforeMonth(y, m) ==
    IF m <= 1 THEN 0 ELSE DaysBeforeMonth(y, m - 1) + DaysInMonth(y, m - 1)

\* The day ordinal of the calendar date y-m-d.
toordinal(y, m, d) == DaysBeforeYear(y) + DaysBeforeMonth(y, m) + d

\* The year of day ordinal n, searched upwards from the year y <= it.
RECURSIVE YearOfOrdinal(_, _)
YearOfOrdinal(n, y) ==
    IF n <= DaysBeforeYear(y + 1) THEN <<y, n - DaysBeforeYear(y)>>
    ELSE YearOfOrdinal(n, y + 1)

RECURSIVE MonthOfDay(_, _, _)
MonthOfDay(y, n, m) ==
    IF n <= DaysInMonth(y, m) THEN <<m, n>>
    ELSE MonthOfDay(y, n - DaysInMonth(y, m), m + 1)

\* swe.julday(year, month, day, hour): the day number of a calendar date.
swe_julday(y, m, d) == toordinal(y, m, d)

\* swe.revjul(jd): the calendar date <<y, m, d>> of a day number.
swe_revjul(jd) ==
    LET yn == YearOfOrdinal(jd, (jd \div 366) + 1)
        mn == MonthOfDay(yn[1], yn[2], 1)
    IN  <<yn[1], mn[1], mn[2]>>

\* f"{d:02d}-{m:02d}-{y}": the date string of a calendar date.
FormatDate(ymd) == <<ymd[3], ymd[2], ymd[1]>>

\* Whether datetime.strptime(ds, "%d-%m-%Y") accepts the string.
strptime_ok(ds) ==
    /\ ds[2] \in 1..12
    /\ ds[3] \in 1..9999
    /\ ds[1] \in 1..DaysInMonth(ds[3], ds[2])

\* datetime.strptime(ds, "%d-%m-%Y"), as the day ordinal of the parsed date.
strptime(ds) == toordinal(ds[3], ds[2], ds[1])

\* (strptime(e) - strptime(prev)).days
DaysBetween(e, prev) == strptime(e) - strptime(prev)

(***************************************************************************)
(* The astrological tables.                                                *)
(***************************************************************************)
ZODIACS ==
    << "Aries", "Taurus", "Gemini", "Cancer", "Leo", "Virgo",
       "Libra", "Scorpio", "Sagittarius", "Capricorn", "Aquarius", "Pisces" >>

\* The swisseph body codes.
PLANETS ==
    [ Sun |-> 0, Moon |-> 1, Mercury |-> 2, Venus |-> 3, Mars |-> 4,
      Jupiter |-> 5, Saturn |-> 6, Rahu |-> 11 ]

\* A dict whose keys are the signs in ZODIACS order and whose values are vals.
SignDict(vals) ==
    [z \in Range(ZODIACS) |->
        vals[CHOOSE i \in 1..12 : ZODIACS[i] = z]]

ASPECTS ==
    [ Opposition |-> SignDict(
        << "Libra", "Scorpio", "Sagittarius", "Capricorn", "Aquarius", "Pisces",
           "Aries", "Taurus", "Gemini", "Cancer", "Leo", "Virgo" >>),
      Conjunction |-> [z \in Range(ZODIACS) |-> z],
      Square |-> SignDict(
        << "Cancer", "Leo", "Virgo", "Libra", "Scorpio", "Sagittarius",
           "Capricorn", "Aquarius", "Pisces", "Aries", "Taurus", "Gemini" >>),
      Trine |-> SignDict(
        << "Leo", "Virgo", "Libra", "Scorpio", "Sagittarius", "Capricorn",
           "Aquarius", "Pisces", "Aries", "Taurus", "Gemini", "Cancer" >>),
      Sextile |-> SignDict(
        << "Gemini", "Cancer", "Leo", "Virgo", "Libra", "Scorpio",
           "Sagittarius", "Capricorn", "Aquarius", "Pisces", "Aries", "Taurus" >>) ]

\* swe.get_ayanamsa_ut(jd): the precession correction, in whole degrees.
swe_get_ayanamsa_ut(jd) == 24

\* get_sidereal_lon_from_jd, given the tropical longitude swe.calc_ut returned.
get_sidereal_lon_from_jd(jd, lon) == (lon - swe_get_ayanamsa_ut(jd)) % 360

get_zodiac_name(sid_lon) == ZODIACS[((sid_lon \div 30) % 12) + 1]

\* The test of the day loop: aspect_map.get(z1) == z2.
AspectTest(aspect_map, z1, z2) ==
    z1 \in DOMAIN aspect_map /\ aspect_map[z1] = z2

(***************************************************************************)
(* Onset compression and truncation (the two inner functions).            *)
(***************************************************************************)
\* A mutant of OnsetLoop: an entry is compared with the last retained entry.
RECURSIVE OnsetLoopRetained(_, _, _, _)
OnsetLoopRetained(entries, i, prev, out) ==
    IF i > Len(entries) THEN out
    ELSE LET e == entries[i]
             keep == prev = <<>> \/ DaysBetween(e, prev) # 1
         IN  OnsetLoopRetained(entries, i + 1, IF keep THEN e ELSE prev,
                               IF keep THEN Append(out, e) ELSE out)

\* The loop of unique_first_past / unique_first_future from entry i on;
\* prev = <<>> stands for None.
RECURSIVE OnsetLoop(_, _, _, _)
OnsetLoop(entries, i, prev, out) ==
    IF i > Len(entries) THEN out
    ELSE LET e == entries[i]
             keep == prev = <<>> \/ DaysBetween(e, prev) # 1
         IN  OnsetLoop(entries, i + 1, e,
                       IF keep THEN Append(out, e) ELSE out)

\* out[-keep:][::-1]
unique_first_past(out, keep) == Reverse(PySliceFrom(out, 0 - keep))

\* out[:keep]
unique_first_future(out, keep) == PySliceTo(out, keep)

(***************************************************************************)
(* analyze_symbol_for_aspect_dates.  A data frame is the sequence of its   *)
(* bars in index order; a bar is [date, close] with date the day ordinal   *)
(* of its timestamp.                                                       *)
(***************************************************************************)
\* The number of bars after the anchor that the window takes.
WindowBars == 10

RECURSIVE SeqMax(_)
SeqMax(s) ==
    IF Len(s) = 1 THEN s[1] ELSE Max2(s[1], SeqMax(Tail(s)))

RECURSIVE SeqMin(_)
SeqMin(s) ==
    IF Len(s) = 1 THEN s[1] ELSE Min2(s[1], SeqMin(Tail(s)))

\* The positions (1-based) of the bars of df.index.date == d.
DateMask(df, d) == {i \in 1..Len(df) : df[i].date = d}

\* A mutant of WindowOf: the window starts at the anchor bar.
WindowOfWithAnchor(df, idx_pos) ==
    SubSeq(df, idx_pos, Min2(idx_pos + WindowBars - 1, Len(df)))

\* df.iloc[start_pos:end_pos] with start_pos = idx_pos + 1 and
\* end_pos = start_pos + 10, for the anchor at 1-based position idx_pos.
WindowOf(df, idx_pos) ==
    SubSeq(df, idx_pos + 1, Min2(idx_pos + WindowBars, Len(df)))

\* ((x - close_on_date) / close_on_date) * 100.0, for close_on_date > 0.
PctOf(x, close_on_date) ==
    [num |-> (x - close_on_date) * 100, den |-> close_on_date]

\* p >= k and p <= k for a percentage p and an integer k.
PctGe(p, k) == p.num >= k * p.den

PctLe(p, k) == p.num <= k * p.den

\* One iteration of the loop over aspect_dates: the date is skipped, a
\* record is appended, or the division raises ZeroDivisionError.
AnalyzeDate(df, ds) ==
    IF ~strptime_ok(ds) THEN [kind |-> "skip"]
    ELSE LET mask == DateMask(df, strptime(ds))
         IN  IF mask = {} THEN [kind |-> "skip"]
             ELSE LET idx_pos == CHOOSE i \in mask : \A j \in mask : i <= j
                      close_on_date == df[idx_pos].close
                      window == WindowOf(df, idx_pos)
                      closes == [i \in 1..Len(window) |-> window[i].close]
                  IN  IF window = <<>> THEN [kind |-> "skip"]
                      ELSE IF close_on_date = 0 THEN [kind |-> "raise"]
                      ELSE [kind |-> "record",
                            rec |-> [aspect_date |-> ds,
                                     close |-> close_on_date,
                                     max10 |-> SeqMax(closes),
                                     min10 |-> SeqMin(closes),
                                     pct_max |-> PctOf(SeqMax(closes), close_on_date),
                                     pct_min |-> PctOf(SeqMin(closes), close_on_date)]]

\* The whole call: [raised, results].
RECURSIVE AnalyzeFrom(_, _, _, _)
AnalyzeFrom(df, dates, k, results) ==
    IF k > Len(dates) THEN [raised |-> FALSE, results |-> results]
    ELSE LET r == AnalyzeDate(df, dates[k])
         IN  IF r.kind = "raise" THEN [raised |-> TRUE, results |-> <<>>]
             ELSE AnalyzeFrom(df, dates, k + 1,
                              IF r.kind = "record" THEN Append(results, r.rec)
                              ELSE results)

analyze_symbol_for_aspect_dates(df, dates) == AnalyzeFrom(df, dates, 1, <<>>)

(***************************************************************************)
(* load_github_df.  A parquet file is [readable, columns, dt_index, rows]: *)
(* whether pd.read_parquet can read it, its column names, whether its      *)
(* index is a DatetimeIndex, and its rows [date, close, timeframe] in file *)
(* order.                                                                  *)
(***************************************************************************)
\* c.lower() of a column name.
Lower(c) ==
    IF c = "Date" THEN "date"
    ELSE IF c = "Datetime" THEN "datetime"
    ELSE c

\* Whether load_github_df raises on the file.
LoadRaises(f) ==
    \/ ~f.readable
    \/ /\ {c \in f.columns : Lower(c) \in {"datetime", "date", "time", "timestamp"}} = {}
       /\ ~f.dt_index
    \/ "close" \notin f.columns

\* df.sort_index(): the rows in ascending date order.
RECURSIVE SortIndex(_)
SortIndex(rows) ==
    IF rows = <<>> THEN <<>>
    ELSE LET i == CHOOSE i \in 1..Len(rows) :
                     \A j \in 1..Len(rows) :
                         \/ rows[i].date < rows[j].date
                         \/ (rows[i].date = rows[j].date /\ i <= j)
         IN  <<rows[i]>> \o
             SortIndex(SubSeq(rows, 1, i - 1) \o SubSeq(rows, i + 1, Len(rows)))

IsDaily(row) == row.timeframe = "D"

\* The frame load_github_df returns for a file it does not raise on.
load_github_df(f) ==
    SortIndex(IF "timeframe" \in f.columns THEN SelectSeq(f.rows, IsDaily)
              ELSE f.rows)

(***************************************************************************)
(* The Run Stock Scan handler: classification, aggregation and filter.     *)
(***************************************************************************)
\* round(p, 2), in hundredths (ties to even).
Round2(p) ==
    LET n == p.num * 100
        fl == n \div p.den
        rm == n - fl * p.den
    IN  IF 2 * rm < p.den THEN fl
        ELSE IF 2 * rm > p.den THEN fl + 1
        ELSE IF fl % 2 = 0 THEN fl ELSE fl + 1

\* (it["pct_max"] >= 10.0) or (it["pct_min"] <= -10.0)
Qualifies(it) == PctGe(it.pct_max, 10) \/ PctLe(it.pct_min, -10)

\* A mutant of MoveCategory: the fall threshold is tested first.
MoveCategoryFallFirst(it) ==
    IF PctLe(it.pct_min, -10) THEN ">10% Fall" ELSE ">10% Gain"

MoveCategory(it) ==
    IF PctGe(it.pct_max, 10) THEN ">10% Gain" ELSE ">10% Fall"

\* The dict appended to results for a qualifying item.
ScanRecord(sym, it, aspect_type) ==
    [ symbol |-> sym,
      aspect_date |-> it.aspect_date,
      close |-> it.close,
      max10 |-> it.max10,
      min10 |-> it.min10,
      pct_max |-> [num |-> Round2(it.pct_max), den |-> 100],
      pct_min |-> [num |-> Round2(it.pct_min), den |-> 100],
      Aspect |-> aspect_type,
      MoveCategory |-> MoveCategory(it) ]

\* The loop over items: the records of the qualifying ones, in order.
RECURSIVE ItemRecords(_, _, _, _)
ItemRecords(sym, items, k, aspect_type) ==
    IF k > Len(items) THEN <<>>
    ELSE (IF Qualifies(items[k])
          THEN <<ScanRecord(sym, items[k], aspect_type)>> ELSE <<>>)
         \o ItemRecords(sym, items, k + 1, aspect_type)

\* A mutant of FileOutcome: a load error is not caught.
FileOutcomeUncaught(f, dates, aspect_type) ==
    IF f.ext # ".parquet" THEN [kind |-> "continue"]
    ELSE IF LoadRaises(f) THEN [kind |-> "raise"]
    ELSE LET a == analyze_symbol_for_aspect_dates(load_github_df(f), dates)
         IN  IF a.raised THEN [kind |-> "raise"]
             ELSE [kind |-> "records",
                   recs |-> ItemRecords(f.stem, a.results, 1, aspect_type)]

\* One iteration of the loop over files: the file is passed over, the
\* records of its symbol are appended, or the analyzer's error propagates.
FileOutcome(f, dates, aspect_type) ==
    IF f.ext # ".parquet" THEN [kind |-> "continue"]
    ELSE IF LoadRaises(f) THEN [kind |-> "continue"]
    ELSE LET a == analyze_symbol_for_aspect_dates(load_github_df(f), dates)
         IN  IF a.raised THEN [kind |-> "raise"]
             ELSE [kind |-> "records",
                   recs |-> ItemRecords(f.stem, a.results, 1, aspect_type)]

\* A mutant of GroupCount: the records are grouped by aspect date.
GroupCountByDate(recs, r) ==
    Cardinality({j \in 1..Len(recs) : recs[j].aspect_date = r.aspect_date})

\* groupby("symbol")["symbol"].transform("count") for the record r: the
\* size of the group of r's symbol.
GroupCount(recs, r) ==
    LET SameSymbol(x) == x.symbol = r.symbol
    IN  Len(SelectSeq(recs, SameSymbol))

\* df_res with its Count column (no column is added to an empty frame).
WithCount(recs) ==
    [i \in 1..Len(recs) |->
        [ symbol |-> recs[i].symbol,
          aspect_date |-> recs[i].aspect_date,
          close |-> recs[i].close,
          max10 |-> recs[i].max10,
          min10 |-> recs[i].min10,
          pct_max |-> recs[i].pct_max,
          pct_min |-> recs[i].pct_min,
          Aspect |-> recs[i].Aspect,
          MoveCategory |-> recs[i].MoveCategory,
          Count |-> GroupCount(recs, recs[i]) ]]

\* df_res[df_res["Count"] >= min_hits]
FilterMinHits(df_res, n) ==
    LET Shown(r) == r.Count >= n
    IN  SelectSeq(df_res, Shown)

(***************************************************************************)
(* State.                                                                  *)
(***************************************************************************)
VARIABLES
    \* find_aspect_dates: one call.
    fpc,            \* "call", "loop", "done" (returned) or "error" (raised)
    args,           \* the arguments of the call
    today,          \* datetime.now(), as <<y, m, d>>
    jd_today,
    start_offset,
    end_offset,
    offset,         \* the loop variable
    sky_before,     \* whether the relation holds the day before start_offset
    sky,            \* the test's result at each offset scanned so far
    ephem_calls,    \* the number of ephemeris evaluations made so far
    results_past,
    results_future,
    out_past,       \* out of unique_first_past before truncation
    out_future,     \* out of unique_first_future before truncation
    ret,            \* the returned (past_dates, future_dates)
    \* analyze_symbol_for_aspect_dates: one call.
    apc,            \* "loop", "done" (returned) or "error" (raised)
    a_df,           \* the data frame of the call
    a_dates,        \* the aspect_dates of the call
    a_k,            \* the position of the loop in aspect_dates
    a_results,      \* the results list
    \* The session and the Run Stock Scan handler.
    planet1,        \* the Planet 1 selection
    planet2,        \* the Planet 2 selection
    aspect_name,    \* the Aspect selection
    aspect_dates_past,  \* st.session_state["aspect_dates_past"]
    aspect_dates_future,  \* st.session_state["aspect_dates_future"]
    scan_results,   \* st.session_state["scan_results"], as its rows
    spc,            \* "idle", "loop", "done" or "error" (the handler raised)
    files,          \* the directory listing the handler fetched
    pos,            \* the position of the loop in files
    results,        \* the results list of the handler
    min_hits,       \* the value of the minimum-occurrence slider
    df_filtered     \* the rows the results table shows

fvars == << fpc, args, today, jd_today, start_offset, end_offset, offset,
            sky_before, sky, ephem_calls, results_past, results_future,
            out_past, out_future, ret >>

avars == << apc, a_df, a_dates, a_k, a_results >>

svars == << planet1, planet2, aspect_name, aspect_dates_past,
            aspect_dates_future, scan_results, spc, files, pos, results, min_hits, df_filtered >>

vars == << fvars, avars, svars >>

\* The variables of the calls that a specification does not make.
FinderIdle ==
    /\ fpc = "idle" /\ args = <<>> /\ today = <<>> /\ jd_today = 0
    /\ start_offset = 0 /\ end_offset = 0 /\ offset = 0
    /\ sky_before = FALSE /\ sky = <<>> /\ ephem_calls = 0
    /\ results_past = <<>> /\ results_future = <<>>
    /\ out_past = <<>> /\ out_future = <<>> /\ ret = <<>>

AnalyzerIdle ==
    /\ apc = "idle" /\ a_df = <<>> /\ a_dates = <<>> /\ a_k = 0
    /\ a_results = <<>>

ScanIdle ==
    /\ planet1 = "Sun" /\ planet2 = "Moon" /\ aspect_name = "Opposition"
    /\ aspect_dates_past = <<>> /\ aspect_dates_future = <<>>
    /\ scan_results = <<>>
    /\ spc = "idle" /\ files = <<>> /\ pos = 0 /\ results = <<>>
    /\ min_hits = 1 /\ df_filtered = <<>>

(***************************************************************************)
(* find_aspect_dates.                                                      *)
(***************************************************************************)
\* The inputs of a call.
PlanetArgs1 == {"Sun", "Pluto"}
PlanetArgs2 == {"Moon", "Ceres"}
AspectArgs == {"Conjunction", "Trine", "Quincunx"}
YearArgs == {-1, 0, 1}
TodayArgs == { <<2024, 3, 2>>, <<2025, 1, 1>> }
\* The tropical longitudes the ephemeris returns, in degrees.
LonArgs == {39, 149, 269, 23}

FinderArgs ==
    [ planet1 : PlanetArgs1, planet2 : PlanetArgs2, aspect_name : AspectArgs,
      years_back : YearArgs, years_forward : YearArgs,
      limit_past : 0..MaxLimit, limit_future : 0..MaxLimit ]

InitFinder ==
    /\ fpc = "call"
    /\ args \in FinderArgs
    /\ today \in TodayArgs
    /\ sky_before \in BOOLEAN
    /\ jd_today = 0
    /\ start_offset = 0
    /\ end_offset = 0
    /\ offset = 0
    /\ sky = <<>>
    /\ ephem_calls = 0
    /\ results_past = <<>>
    /\ results_future = <<>>
    /\ out_past = <<>>
    /\ out_future = <<>>
    /\ ret = <<>>
    /\ AnalyzerIdle
    /\ ScanIdle

\* Lines 172-188: the set-up before the day loop.
FindCall ==
    /\ fpc = "call"
    /\ jd_today' = swe_julday(today[1], today[2], today[3])
    /\ IF \/ args.planet1 \notin DOMAIN PLANETS
          \/ args.planet2 \notin DOMAIN PLANETS
          \/ args.aspect_name \notin DOMAIN ASPECTS
       THEN /\ fpc' = "error"
            /\ UNCHANGED << start_offset, end_offset, offset >>
       ELSE /\ fpc' = "loop"
            /\ start_offset' = (0 - YearLen) * args.years_back
            /\ end_offset' = YearLen * args.years_forward
            /\ offset' = (0 - YearLen) * args.years_back
    /\ UNCHANGED << args, today, sky_before, sky, ephem_calls, results_past,
                    results_future, out_past, out_future, ret, avars, svars >>

\* Lines 190-205: one iteration of the day loop.
DayStep ==
    /\ fpc = "loop"
    /\ offset <= end_offset
    /\ \E lon1 \in LonArgs, lon2 \in LonArgs :
        LET jd == jd_today + offset
            z1 == get_zodiac_name(get_sidereal_lon_from_jd(jd, lon1))
            z2 == get_zodiac_name(get_sidereal_lon_from_jd(jd, lon2))
            hit == AspectTest(ASPECTS[args.aspect_name], z1, z2)
            date_str == FormatDate(swe_revjul(jd))
        IN  /\ sky' = Append(sky, hit)
            /\ results_past' =
                 IF hit /\ offset < 0 THEN Append(results_past, date_str)
                 ELSE results_past
            /\ results_future' =
                 IF hit /\ ~(offset < 0) THEN Append(results_future, date_str)
                 ELSE results_future
    /\ ephem_calls' = ephem_calls + 2
    /\ offset' = offset + 1
    /\ UNCHANGED << fpc, args, today, jd_today, start_offset, end_offset,
                    sky_before, out_past, out_future, ret, avars, svars >>

\* Lines 207-234: compression, truncation and return.
FindReturn ==
    /\ fpc = "loop"
    /\ offset > end_offset
    /\ out_past' = OnsetLoop(results_past, 1, <<>>, <<>>)
    /\ out_future' = OnsetLoop(results_future, 1, <<>>, <<>>)
    /\ ret' = << unique_first_past(out_past', args.limit_past),
                 unique_first_future(out_future', args.limit_future) >>
    /\ fpc' = "done"
    /\ UNCHANGED << args, today, jd_today, start_offset, end_offset, offset,
                    sky_before, sky, ephem_calls, results_past, results_future,
                    avars, svars >>

NextFinder == FindCall \/ DayStep \/ FindReturn

SpecFinder == InitFinder /\ [][NextFinder]_vars

(***************************************************************************)
(* analyze_symbol_for_aspect_dates, one call on drawn inputs.              *)
(***************************************************************************)
\* The largest number of bars of a data frame.
MaxBars == 13
\* The largest number of aspect dates of a call.
MaxDates == 2

\* The day ordinal of the i-th trading day from Monday 04-03-2024 on
\* (Saturdays and Sundays have no bar).
BarDate(i) == toordinal(2024, 3, 4) + (i - 1) + 2 * ((i - 1) \div 5)

\* The closes of the bars: the anchor 100 and the ten closes after it,
\* then two bars beyond that window.
BaseCloses == << 100, 90, 95, 112, 108, 99, 101, 97, 103, 94, 89, 130, 70 >>

BaseClose(i) == IF i <= Len(BaseCloses) THEN BaseCloses[i] ELSE 100 + i

\* The sorted frame of n bars whose bar z (if any) has close zero.
Frame(n, z) ==
    [i \in 1..n |-> [date |-> BarDate(i),
                     close |-> IF i = z THEN 0 ELSE BaseClose(i)]]

FrameArgs == {Frame(n, z) : n \in 0..MaxBars, z \in 0..MaxBars}

\* The date strings: the bars 1, 6 and 13, a Saturday, a day after the
\* series, and 31-02-2024, which strptime rejects.
DateArgs ==
    { <<4, 3, 2024>>, <<11, 3, 2024>>, <<20, 3, 2024>>, <<9, 3, 2024>>,
      <<1, 6, 2024>>, <<31, 2, 2024>> }

RECURSIVE SeqsUpTo(_, _)
SeqsUpTo(S, n) ==
    IF n = 0 THEN {<<>>}
    ELSE LET shorter == SeqsUpTo(S, n - 1)
         IN  shorter \cup {Append(q, x) : q \in shorter, x \in S}

InitAnalyze ==
    /\ FinderIdle
    /\ ScanIdle
    /\ apc = "loop"
    /\ a_df \in FrameArgs
    /\ a_dates \in SeqsUpTo(DateArgs, MaxDates)
    /\ a_k = 1
    /\ a_results = <<>>

\* Lines 274-307: one iteration of the loop.
AnalyzeStep ==
    /\ apc = "loop"
    /\ a_k <= Len(a_dates)
    /\ LET r == AnalyzeDate(a_df, a_dates[a_k])
       IN  IF r.kind = "raise"
           THEN /\ apc' = "error"
                /\ UNCHANGED << a_k, a_results >>
           ELSE /\ apc' = apc
                /\ a_k' = a_k + 1
                /\ a_results' = IF r.kind = "record"
                                THEN Append(a_results, r.rec)
                                ELSE a_results
    /\ UNCHANGED << a_df, a_dates, fvars, svars >>

\* Line 309: return results.
AnalyzeReturn ==
    /\ apc = "loop"
    /\ a_k > Len(a_dates)
    /\ apc' = "done"
    /\ UNCHANGED << a_df, a_dates, a_k, a_results, fvars, svars >>

NextAnalyze == AnalyzeStep \/ AnalyzeReturn

SpecAnalyze == InitAnalyze /\ [][NextAnalyze]_vars

(***************************************************************************)
(* The Stocks Scan tab: one press of Run Stock Scan, then the slider.      *)
(***************************************************************************)
\* The largest number of files of the directory listing.
MaxFiles == 3
\* The largest value of the "at least N times" slider.
SliderMax == 10

Row(i, c, tf) == [date |-> BarDate(i), close |-> c, timeframe |-> tf]

RowsOf(closes) == [i \in 1..Len(closes) |-> Row(i, closes[i], "D")]

\* AAA: a DatetimeIndex and no datetime column; the bars of BaseCloses.
FileAAA ==
    [ stem |-> "AAA", ext |-> ".parquet", readable |-> TRUE,
      columns |-> {"open", "high", "low", "close"}, dt_index |-> TRUE,
      rows |-> RowsOf(BaseCloses) ]

\* BBB: a "Date" column, rows out of order and one weekly row (a Saturday);
\* after bar 1 it falls 12% and gains 5%, after bar 6 it moves 2-3%.
FileBBB ==
    [ stem |-> "BBB", ext |-> ".parquet", readable |-> TRUE,
      columns |-> {"Date", "close", "timeframe"}, dt_index |-> FALSE,
      rows |-> << Row(3, 88, "D"), Row(1, 100, "D"), Row(2, 95, "D"),
                  [date |-> BarDate(5) + 1, close |-> 500, timeframe |-> "W"],
                  Row(4, 92, "D"), Row(5, 105, "D"), Row(6, 90, "D"),
                  Row(8, 93, "D"), Row(7, 92, "D") >> ]

\* EDG: after bar 1 exactly +10% and exactly -10%; after bar 6 exactly -10%
\* and +9.996%.
FileEDG ==
    [ stem |-> "EDG", ext |-> ".parquet", readable |-> TRUE,
      columns |-> {"datetime", "close"}, dt_index |-> FALSE,
      rows |-> RowsOf(<< 100000, 110000, 100000, 100000, 100000,
                         100000, 90000, 109996 >>) ]

\* ZERO: the close of bar 1 is zero.
FileZERO ==
    [ stem |-> "ZERO", ext |-> ".parquet", readable |-> TRUE,
      columns |-> {"date", "close"}, dt_index |-> FALSE,
      rows |-> RowsOf(<< 0, 50, 60 >>) ]

\* Files that fail to load: unreadable, no datetime column or index, no
\* close column.
FileBAD ==
    [ stem |-> "BAD", ext |-> ".parquet", readable |-> FALSE,
      columns |-> {}, dt_index |-> FALSE, rows |-> <<>> ]

FileNODT ==
    [ stem |-> "NODT", ext |-> ".parquet", readable |-> TRUE,
      columns |-> {"close", "volume"}, dt_index |-> FALSE,
      rows |-> RowsOf(<< 100, 120 >>) ]

FileNOCLOSE ==
    [ stem |-> "NOCLOSE", ext |-> ".parquet", readable |-> TRUE,
      columns |-> {"date", "open"}, dt_index |-> FALSE,
      rows |-> RowsOf(<< 100, 120 >>) ]

\* A file of the directory that is no parquet file.
FileREADME ==
    [ stem |-> "README", ext |-> ".md", readable |-> FALSE,
      columns |-> {}, dt_index |-> FALSE, rows |-> <<>> ]

FileArgs ==
    { FileAAA, FileBBB, FileEDG, FileZERO, FileBAD, FileNODT, FileNOCLOSE,
      FileREADME }

\* The listings: up to n files of the directory, no file twice.
RECURSIVE ListingsUpTo(_)
ListingsUpTo(n) ==
    IF n = 0 THEN {<<>>}
    ELSE LET shorter == ListingsUpTo(n - 1)
         IN  shorter \cup
             UNION {{Append(q, f) : f \in FileArgs \ Range(q)} : q \in shorter}

\* The stored past onset dates, most recent first: none yet, bar 1, bars 6
\* and 1, and bar 13, a Saturday and bar 6.
ScanDateArgs ==
    { <<>>,
      << <<4, 3, 2024>> >>,
      << <<11, 3, 2024>>, <<4, 3, 2024>> >>,
      << <<20, 3, 2024>>, <<9, 3, 2024>>, <<11, 3, 2024>> >> }

InitScan ==
    /\ FinderIdle
    /\ AnalyzerIdle
    /\ planet1 = "Sun" /\ planet2 = "Moon" /\ aspect_name = "Opposition"
    /\ aspect_dates_past \in ScanDateArgs
    /\ aspect_dates_future = <<>>
    /\ scan_results = <<>>
    /\ spc = "idle" /\ files = <<>> /\ pos = 0 /\ results = <<>>
    /\ min_hits = 1 /\ df_filtered = <<>>

\* Lines 389-397: the button is pressed and the listing fetched.
ScanStart ==
    /\ spc = "idle"
    /\ aspect_dates_past # <<>>
    /\ files' \in ListingsUpTo(MaxFiles)
    /\ results' = <<>>
    /\ pos' = 1
    /\ spc' = "loop"
    /\ UNCHANGED << planet1, planet2, aspect_name, aspect_dates_past,
                    aspect_dates_future,
                    scan_results, min_hits, df_filtered, fvars, avars >>

\* Lines 402-435: one iteration of the loop over files.
ScanFile ==
    /\ spc = "loop"
    /\ pos <= Len(files)
    /\ LET o == FileOutcome(files[pos], aspect_dates_past,
                            << planet1, aspect_name, planet2 >>)
       IN  IF o.kind = "raise"
           THEN /\ spc' = "error"
                /\ UNCHANGED << pos, results >>
           ELSE /\ spc' = spc
                /\ pos' = pos + 1
                /\ results' = IF o.kind = "records" THEN results \o o.recs
                              ELSE results
    /\ UNCHANGED << planet1, planet2, aspect_name, aspect_dates_past,
                    aspect_dates_future,
                    scan_results, files, min_hits, df_filtered, fvars, avars >>

\* Lines 437-456: the results are stored and the table is shown.
ScanFinish ==
    /\ spc = "loop"
    /\ pos > Len(files)
    /\ scan_results' = WithCount(results)
    /\ df_filtered' = FilterMinHits(scan_results', min_hits)
    /\ spc' = "done"
    /\ UNCHANGED << planet1, planet2, aspect_name, aspect_dates_past,
                    aspect_dates_future, files,
                    pos, results, min_hits, fvars, avars >>

\* Lines 448-456: the slider is moved and the table shown again.
SetMinHits ==
    /\ spc = "done"
    /\ scan_results # <<>>
    /\ \E n \in 1..SliderMax :
        /\ min_hits' = n
        /\ df_filtered' = FilterMinHits(scan_results, n)
    /\ UNCHANGED << planet1, planet2, aspect_name, aspect_dates_past,
                    aspect_dates_future,
                    scan_results, spc, files, pos, results, fvars, avars >>

NextScan == ScanStart \/ ScanFile \/ ScanFinish \/ SetMinHits

SpecScan == InitScan /\ [][NextScan]_vars

(***************************************************************************)
(* The page: the Aspects tab selections, Find Aspect Dates and Run Stock   *)
(* Scan, pressed in any order over one session.                            *)
(***************************************************************************)
\* The options of the Planet 1 and Planet 2 select boxes that are used.
PlanetChoices == {"Sun", "Moon"}
\* The options of the Aspect select box that are used.
AspectChoices == {"Opposition", "Conjunction"}
\* The values of the Years back and Years forward inputs that are used.
YearChoices == {1}
\* datetime.now() of the session: Thursday 07-03-2024.
UIToday == <<2024, 3, 7>>
\* The defaults of limit_past and limit_future.
limit_past_default == 20
limit_future_default == 5
\* The skies the ephemeris may describe, as the phase of the Moon's cycle.
UISkies == {0}

\* swe.calc_ut(jd, pid)[0][0] under sky v: the Sun stays in sidereal Aries,
\* the Moon is in turn in Aries, Libra and Leo, every other body is in Leo.
swe_calc_ut(v, jd, pid) ==
    IF pid = PLANETS["Sun"] THEN 39
    ELSE IF pid = PLANETS["Moon"]
         THEN CASE (jd + v) % 3 = 0 -> 39
                [] (jd + v) % 3 = 1 -> 219
                [] OTHER -> 149
         ELSE 149

\* Whether the relation of call a holds on day jd under sky v.
SkyTest(v, a, jd) ==
    LET lon1 == swe_calc_ut(v, jd, PLANETS[a.planet1])
        lon2 == swe_calc_ut(v, jd, PLANETS[a.planet2])
        z1 == get_zodiac_name(get_sidereal_lon_from_jd(jd, lon1))
        z2 == get_zodiac_name(get_sidereal_lon_from_jd(jd, lon2))
    IN  AspectTest(ASPECTS[a.aspect_name], z1, z2)

\* The day loop of find_aspect_dates from offset off on, run to its end.
RECURSIVE DayLoop(_, _, _, _, _)
DayLoop(v, a, jd0, off, acc) ==
    IF off > YearLen * a.years_forward THEN acc
    ELSE LET jd == jd0 + off
             hit == SkyTest(v, a, jd)
             date_str == FormatDate(swe_revjul(jd))
         IN  DayLoop(v, a, jd0, off + 1,
                 [ sky |-> Append(acc.sky, hit),
                   past |-> IF hit /\ off < 0 THEN Append(acc.past, date_str)
                            ELSE acc.past,
                   future |-> IF hit /\ ~(off < 0)
                              THEN Append(acc.future, date_str)
                              ELSE acc.future ])

\* No handler is running: the script waits for the next interaction.
PageAtRest == spc \in {"idle", "done", "error"}

InitUI ==
    /\ FinderIdle
    /\ AnalyzerIdle
    /\ ScanIdle

\* Line 340: another Planet 1 is selected.
SelectPlanet1 ==
    /\ PageAtRest
    /\ \E p \in PlanetChoices \ {planet1} : planet1' = p
    /\ UNCHANGED << planet2, aspect_name, aspect_dates_past,
                    aspect_dates_future, scan_results, spc, files, pos,
                    results, min_hits, df_filtered, fvars, avars >>

\* Line 342: another Planet 2 is selected.
SelectPlanet2 ==
    /\ PageAtRest
    /\ \E p \in PlanetChoices \ {planet2} : planet2' = p
    /\ UNCHANGED << planet1, aspect_name, aspect_dates_past,
                    aspect_dates_future, scan_results, spc, files, pos,
                    results, min_hits, df_filtered, fvars, avars >>

\* Line 344: another Aspect is selected.
SelectAspect ==
    /\ PageAtRest
    /\ \E n \in AspectChoices \ {aspect_name} : aspect_name' = n
    /\ UNCHANGED << planet1, planet2, aspect_dates_past,
                    aspect_dates_future, scan_results, spc, files, pos,
                    results, min_hits, df_filtered, fvars, avars >>

\* Lines 349-359: Find Aspect Dates is pressed; find_aspect_dates runs on
\* the selections and its two lists are stored in the session.
FindAspectDates ==
    /\ PageAtRest
    /\ \E v \in UISkies, yb \in YearChoices, yf \in YearChoices :
        LET a == [ planet1 |-> planet1, planet2 |-> planet2,
                   aspect_name |-> aspect_name,
                   years_back |-> yb, years_forward |-> yf,
                   limit_past |-> limit_past_default,
                   limit_future |-> limit_future_default ]
            jd0 == swe_julday(UIToday[1], UIToday[2], UIToday[3])
            first == (0 - YearLen) * yb
            run == DayLoop(v, a, jd0, first,
                           [sky |-> <<>>, past |-> <<>>, future |-> <<>>])
            outp == OnsetLoop(run.past, 1, <<>>, <<>>)
            outf == OnsetLoop(run.future, 1, <<>>, <<>>)
            past == unique_first_past(outp, a.limit_past)
            future == unique_first_future(outf, a.limit_future)
        IN  /\ args' = a
            /\ today' = UIToday
            /\ jd_today' = jd0
            /\ start_offset' = first
            /\ end_offset' = YearLen * yf
            /\ offset' = YearLen * yf + 1
            /\ sky_before' = SkyTest(v, a, jd0 + first - 1)
            /\ sky' = run.sky
            /\ ephem_calls' = 2 * Len(run.sky)
            /\ results_past' = run.past
            /\ results_future' = run.future
            /\ out_past' = outp
            /\ out_future' = outf
            /\ ret' = << past, future >>
            /\ fpc' = "done"
            /\ aspect_dates_past' = past
            /\ aspect_dates_future' = future
    /\ UNCHANGED << planet1, planet2, aspect_name, scan_results, spc, files,
                    pos, results, min_hits, df_filtered, avars >>

\* The directory listings of the session's scans.
UIListings ==
    { << FileAAA >>, << FileBBB, FileAAA >>, << FileAAA, FileZERO >> }

\* Lines 387-397: Run Stock Scan is pressed and the listing fetched.
RunStockScan ==
    /\ PageAtRest
    /\ aspect_dates_past # <<>>
    /\ files' \in UIListings
    /\ results' = <<>>
    /\ pos' = 1
    /\ spc' = "loop"
    /\ UNCHANGED << planet1, planet2, aspect_name, aspect_dates_past,
                    aspect_dates_future, scan_results, min_hits, df_filtered,
                    fvars, avars >>

NextUI ==
    \/ SelectPlanet1 \/ SelectPlanet2 \/ SelectAspect
    \/ FindAspectDates
    \/ RunStockScan \/ ScanFile \/ ScanFinish

SpecUI == InitUI /\ [][NextUI]_vars

(***************************************************************************)
(* Properties of find_aspect_dates.                                        *)
(***************************************************************************)
\* Whether the relation test was true at offset o: as the loop recorded it
\* for a scanned offset, as the sky has it the day before the range.
Held(o) ==
    IF o = start_offset - 1 THEN sky_before
    ELSE /\ o - start_offset + 1 \in 1..Len(sky)
         /\ sky[o - start_offset + 1]

DateOfOffset(o) == FormatDate(swe_revjul(jd_today + o))

\* The dates of the offsets of lo..hi that are in S, in ascending order.
RECURSIVE DatesOf(_, _, _)
DatesOf(lo, hi, S) ==
    IF lo > hi THEN <<>>
    ELSE (IF lo \in S THEN <<DateOfOffset(lo)>> ELSE <<>>) \o DatesOf(lo + 1, hi, S)

PastHits == {o \in start_offset..Min2(end_offset, -1) : Held(o)}

FutureHits == {o \in Max2(start_offset, 0)..end_offset : Held(o)}

\* The first offset of every maximal run of consecutive offsets of S.
RunStarts(S) == {o \in S : o - 1 \notin S}

LastN(s, k) == SubSeq(s, Len(s) - k + 1, Len(s))

FirstN(s, k) == SubSeq(s, 1, k)

\* A configuration error: an unknown body or relation, or a year span < 1.
ConfigError ==
    \/ args.planet1 \notin DOMAIN PLANETS
    \/ args.planet2 \notin DOMAIN PLANETS
    \/ args.aspect_name \notin DOMAIN ASPECTS
    \/ args.years_back < 1
    \/ args.years_forward < 1

\* C1: when the call returns, the collected lists are the detected days in
\* chronological order and each compressed list (before truncation) holds
\* exactly the first date of every maximal run of consecutive calendar days
\* of its list, in order.
C1_OnsetCompression ==
    fpc = "done" =>
        /\ results_past = DatesOf(start_offset, end_offset, PastHits)
        /\ results_future = DatesOf(start_offset, end_offset, FutureHits)
        /\ out_past = DatesOf(start_offset, end_offset, RunStarts(PastHits))
        /\ out_future = DatesOf(start_offset, end_offset, RunStarts(FutureHits))

\* A returned call whose past list is one run of three days across the end
\* of February and whose future list holds two runs, one of two days.
C1_Witness ==
    /\ fpc = "done"
    /\ today = <<2024, 3, 2>>
    /\ Len(results_past) = 3 /\ Len(out_past) = 1
    /\ Len(results_future) = 3 /\ Len(out_future) = 2

\* C2: for every limit_past >= 0 and limit_future >= 0, the call (with a
\* valid configuration) returns the last min(limit_past, #past onsets) past
\* onsets, most recent first, and the first min(limit_future, #future onsets)
\* future onsets in order; so neither list is longer than its limit.
C2_Truncation ==
    (fpc = "done" /\ ~ConfigError) =>
        /\ ret[1] = Reverse(LastN(out_past, Min2(args.limit_past, Len(out_past))))
        /\ ret[2] = FirstN(out_future, Min2(args.limit_future, Len(out_future)))
        /\ Len(ret[1]) <= args.limit_past
        /\ Len(ret[2]) <= args.limit_future

\* The offset of a returned date.
OffsetOfDate(ds) == CHOOSE o \in start_offset..end_offset : DateOfOffset(o) = ds

\* C3: every returned date is a day on which the relation holds and did not
\* hold the day before (stated for a call with a valid configuration and
\* limit_past >= 1, on a sky where the relation does not hold the day before
\* the scanned range, so that only scanned days decide it).
C3_ReturnedAreOnsets ==
    (fpc = "done" /\ ~ConfigError /\ args.limit_past >= 1 /\ ~sky_before) =>
        \A k \in 1..2 : \A i \in 1..Len(ret[k]) :
            LET o == OffsetOfDate(ret[k][i])
            IN  Held(o) /\ ~Held(o - 1)

\* C9: a call with a configuration error makes no ephemeris evaluation and
\* returns no result.
C9_ConfigErrorFailsFast ==
    ConfigError => (ephem_calls = 0 /\ fpc # "done")

(***************************************************************************)
(* Properties of analyze_symbol_for_aspect_dates.                          *)
(***************************************************************************)
\* The positions of the bars of a frame that a date string names.
BarsOn(df, ds) ==
    IF strptime_ok(ds)
    THEN {i \in 1..Len(df) : df[i].date = toordinal(ds[3], ds[2], ds[1])}
    ELSE {}

\* The date parses, matches a bar and has at least one bar after that bar.
Eligible(df, ds) == \E i \in BarsOn(df, ds) : i < Len(df)

EligibleHere(ds) == Eligible(a_df, ds)

DateOfRecord(r) == r.aspect_date

DatesOfRecords(recs) == [i \in 1..Len(recs) |-> DateOfRecord(recs[i])]

\* C4: the call raises no error, and the records emitted so far are one per
\* eligible date among the dates processed so far, in input order (every
\* other date emits nothing).
C4_OneRecordPerEligibleDate ==
    /\ apc # "error"
    /\ apc \in {"loop", "done"} =>
         DatesOfRecords(a_results) =
             SelectSeq(SubSeq(a_dates, 1, a_k - 1), EligibleHere)

SetMax(S) == CHOOSE x \in S : \A y \in S : y <= x

SetMin(S) == CHOOSE x \in S : \A y \in S : x <= y

\* C5: every record has the close of its date's bar i, the maximum and the
\* minimum close over the bars i+1 .. min(i+10, n), and the two percentages
\* (max10 - close) / close * 100 and (min10 - close) / close * 100.
C5_WindowStatistics ==
    \A k \in 1..Len(a_results) :
        LET r == a_results[k]
            n == Len(a_df)
        IN  \E i \in BarsOn(a_df, r.aspect_date) :
                LET after == {a_df[j].close : j \in (i + 1)..Min2(i + 10, n)}
                IN  /\ after # {}
                    /\ r.close = a_df[i].close
                    /\ r.max10 = SetMax(after)
                    /\ r.min10 = SetMin(after)
                    /\ r.pct_max.den > 0 /\ r.pct_min.den > 0
                    /\ r.pct_max.num * r.close = (r.max10 - r.close) * 100 * r.pct_max.den
                    /\ r.pct_min.num * r.close = (r.min10 - r.close) * 100 * r.pct_min.den

\* A returned call on 13 bars: the record of bar 1 (anchor 100, more than
\* ten bars after it) has max10 112, min10 89, pct_max 12 and pct_min -11,
\* and the record of bar 6 uses the seven bars that remain.
C5_Witness ==
    /\ apc = "done"
    /\ Len(a_df) = 13
    /\ Len(a_results) = 2
    /\ a_results[1].aspect_date = <<4, 3, 2024>>
    /\ a_results[1].close = 100
    /\ a_results[1].max10 = 112 /\ a_results[1].min10 = 89
    /\ a_results[1].pct_max.num = 12 * a_results[1].pct_max.den
    /\ a_results[1].pct_min.num = (0 - 11) * a_results[1].pct_min.den
    /\ a_results[2].aspect_date = <<11, 3, 2024>>
    /\ a_results[2].max10 = 130 /\ a_results[2].min10 = 70

\* The date is eligible and the close of its bar is not zero.
EligibleNonZero(ds) ==
    \E i \in BarsOn(a_df, ds) : i < Len(a_df) /\ a_df[i].close # 0

\* C6: a date whose anchor close is zero is skipped without an error: the
\* call returns, with the records of the remaining dates.
C6_ZeroAnchorSkipped ==
    /\ apc = "error" => FALSE
    /\ apc = "done" =>
         DatesOfRecords(a_results) = SelectSeq(a_dates, EligibleNonZero)

(***************************************************************************)
(* Properties of the stock scan.                                           *)
(***************************************************************************)
\* The files the loop has passed.
Passed == SubSeq(files, 1, Min2(pos - 1, Len(files)))

\* A symbol whose price series fails to load.
FailsToLoad(f) == f.ext = ".parquet" /\ LoadRaises(f)

\* The analyzer's items for a file that loads.
ItemsOf(f) ==
    analyze_symbol_for_aspect_dates(load_github_df(f), aspect_dates_past)

\* The file is a symbol whose series loads and whose analysis returns.
Analysed(f) == f.ext = ".parquet" /\ ~LoadRaises(f) /\ ~ItemsOf(f).raised

Over10(it) == PctGe(it.pct_max, 10)

Under10(it) == PctLe(it.pct_min, -10)

\* The analyzer's items for each file passed (none for a file that is no
\* symbol, does not load or whose analysis raises).
ItemsPassed ==
    [i \in 1..Len(Passed) |->
        IF Analysed(Passed[i]) THEN ItemsOf(Passed[i]).results ELSE <<>>]

\* The (file, item) pairs of items whose item breaches a threshold.
QualifyingPairs(items) ==
    {p \in (1..Len(items)) \X (1..Len(aspect_dates_past)) :
        /\ p[2] <= Len(items[p[1]])
        /\ (Over10(items[p[1]][p[2]]) \/ Under10(items[p[1]][p[2]]))}

Loads(f) == ~FailsToLoad(f)

\* The scan of a listing from file k on: [raised, results].
RECURSIVE RunFrom(_, _, _)
RunFrom(fs, k, acc) ==
    IF k > Len(fs) THEN [raised |-> FALSE, results |-> acc]
    ELSE LET o == FileOutcome(fs[k], aspect_dates_past,
                              << planet1, aspect_name, planet2 >>)
         IN  IF o.kind = "raise" THEN [raised |-> TRUE, results |-> acc]
             ELSE RunFrom(fs, k + 1,
                          IF o.kind = "records" THEN acc \o o.recs ELSE acc)

\* C8: a symbol that fails to load adds no record and does not end the
\* scan: the loop goes on to the next file, and the records collected, the
\* records stored and an error of the analyzer are those of the same scan
\* over the listing without the failing symbols.
C8_LoadFailureSkipped ==
    spc # "idle" =>
        LET reached == IF spc = "error" THEN SubSeq(files, 1, pos) ELSE Passed
            run == RunFrom(SelectSeq(reached, Loads), 1, <<>>)
        IN  /\ spc = "loop" => ~run.raised
            /\ spc = "error" => run.raised /\ Loads(files[pos])
            /\ results = run.results
            /\ spc = "done" =>
                   pos = Len(files) + 1 /\ scan_results = WithCount(run.results)

\* A finished scan whose listing has a failing symbol before a symbol that
\* has stored records.
C8_Witness ==
    /\ spc = "done"
    /\ \E i \in 1..Len(files) : \E j \in 1..Len(files) :
           /\ i < j
           /\ FailsToLoad(files[i])
           /\ \E k \in 1..Len(scan_results) :
                  scan_results[k].symbol = files[j].stem

\* C10: the Count of a stored record is the number of records of its scan
\* with its symbol, and the table shows exactly the stored records with
\* Count >= N: a symbol's records together, and all records for N = 1.
C10_CountAndFilter ==
    spc = "done" =>
         /\ Len(scan_results) = Len(results)
         /\ \A k \in 1..Len(scan_results) :
                /\ scan_results[k].symbol = results[k].symbol
                /\ scan_results[k].aspect_date = results[k].aspect_date
                /\ scan_results[k].Count =
                       Cardinality({j \in 1..Len(results) :
                                       results[j].symbol = results[k].symbol})
         /\ LET shown == {k \in 1..Len(scan_results) :
                              scan_results[k].Count >= min_hits}
            IN  /\ Len(df_filtered) = Cardinality(shown)
                /\ \A k \in shown :
                       df_filtered[Cardinality({j \in shown : j <= k})] =
                           scan_results[k]
                /\ \A k \in shown : \A j \in 1..Len(scan_results) :
                       scan_results[j].symbol = scan_results[k].symbol =>
                           j \in shown
         /\ min_hits = 1 => df_filtered = scan_results

\* A finished scan shown with N = 2: a symbol with two records is shown and
\* a symbol with one record is hidden.
C10_Witness ==
    /\ spc = "done"
    /\ min_hits = 2
    /\ df_filtered # <<>>
    /\ Len(df_filtered) < Len(scan_results)

(***************************************************************************)
(* Properties of the page.                                                 *)
(***************************************************************************)
\* The description of the bodies and the relation of a find_aspect_dates
\* call, as the scan writes a description.
AspectOfCall(a) == << a.planet1, a.aspect_name, a.planet2 >>

\* C11: whatever the user did before, a running scan analyses the past
\* dates returned by the latest Find Aspect Dates, and the Aspect of every
\* record it has built names the two bodies and the relation that were
\* passed to find_aspect_dates in that call.
C11_AspectNamesFinderArguments ==
    spc = "loop" =>
        /\ fpc = "done"
        /\ aspect_dates_past = ret[1]
        /\ \A k \in 1..Len(results) : results[k].Aspect = AspectOfCall(args)

=============================================================================
